---- MODULE Spec2Model ----
(***************************************************************************)
(* Model of the rewind crate: compensable values (atom.rs: Simple,         *)
(* Owning), the shared resource handle and its sub-operations (atom.rs:    *)
(* Encased, SideEffect) and the composite (stack.rs: Stack).               *)
(*                                                                         *)
(* Values of the generic type T are modelled as finite sequences of small  *)
(* integers (a Vec<i32>, or an Option<i32> as a sequence of length <= 1).  *)
(* An Option<X> / ManuallyDrop<X> slot is a sequence of length <= 1:       *)
(* <<>> is None (or "taken"), <<x>> is Some(x).                            *)
(*                                                                         *)
(* The methods are operators from a world w to the world after the call.   *)
(* A world is [units, calls, res, rc, ret, out]: the units, the log of     *)
(* compensation invocations, the encased resource, the strong count of its *)
(* Rc, the value the call returns (an Option) and the Vec a Stack collects.*)
(***************************************************************************)
EXTENDS Integers, Sequences, FiniteSets, TLC

VARIABLES
    units,      \* the compensable units created so far, in creation order
    calls,      \* the log of compensation invocations, in order
    stack,      \* the Stack (stack.rs)
    resource,   \* the S inside the Rc<RefCell<S>> of Encased
    rc,         \* the strong count of that Rc
    handles,    \* the Encased handles the caller holds
    borrowed,   \* the RefCell is mutably borrowed
    pending,    \* the peel_mut whose action is executing, as an Option
    exit,       \* how the scope holding the units ended
    direct      \* the number of direct pushes made through a handle

vars == <<units, calls, stack, resource, rc, handles, borrowed, pending, exit,
          direct>>

----------------------------------------------------------------------------
(* Bounds *)

\* number of Simple / Owning atoms and of SideEffects created in one run
MaxUnits == 2

\* number of units pushed onto the Stack in one run
MaxMembers == 3

\* number of times the caller pushes onto the encased Vec directly
MaxDirect == 2

\* number of Encased handles the caller holds at once
MaxHandles == 2

----------------------------------------------------------------------------
(* Option / ManuallyDrop slots *)

None == <<>>

Some(x) == <<x>>

IsSome(o) == o # <<>>

\* Option::unwrap / ManuallyDrop::take of a filled slot
Unwrap(o) == o[1]

----------------------------------------------------------------------------
(* Inputs: values and compensating closures for Simple / Owning *)

\* values v handed to simple(v, f) / own(v, f)
Vals == {<<1>>, <<1, 2>>}

\* values the live copy of an Owning can be set to through get_mut / DerefMut
LiveVals == {<<>>, <<1, 2>>, <<1, 2, 3>>}

\* compensating closures FnOnce(T) -> R: "id" is rewind::id (|v| v),
\* "push9" is |mut v| { v.push(9); v }
AtomFns == {"id", "push9"}

\* the result of the closure f applied to v
ApplyUndo(f, v) == IF f = "id" THEN v ELSE Append(v, 9)

----------------------------------------------------------------------------
(* Inputs: resources, actions and compensating closures for peel_mut *)

\* the Vec handed to encase
InitRes == {<<>>, <<1, 2, 3>>}

\* elements pushed by the caller
PushVals == {4, 5}

\* actions FnOnce(&mut S) -> R: |s| s.pop() and |s| s.push(k)
Acts == {"pop", "push4", "push5"}

\* compensating closures FnOnce(&mut S, T) -> R:
\* "push_back" is |s, v| if let Some(v) = v { s.push(v) }, "pop" is |s, _| s.pop()
SeFns == {"push_back", "pop"}

\* Vec::pop: the Vec afterwards and the Option returned
VecPop(res) ==
    IF res = <<>>
    THEN [res |-> res, val |-> None]
    ELSE [res |-> SubSeq(res, 1, Len(res) - 1), val |-> Some(res[Len(res)])]

\* the action a run on the resource: the resource afterwards and the value
\* returned (push returns the unit value, modelled as the empty sequence)
ApplyAct(a, res) ==
    CASE a = "pop"   -> VecPop(res)
      [] a = "push4" -> [res |-> Append(res, 4), val |-> None]
      [] a = "push5" -> [res |-> Append(res, 5), val |-> None]

\* the compensating closure f run on the resource with the value v
ApplySeUndo(f, res, v) ==
    IF f = "push_back"
    THEN [res |-> IF IsSome(v) THEN Append(res, Unwrap(v)) ELSE res, val |-> None]
    ELSE VecPop(res)

\* the action grows the Vec
IsPush(a) == a \in {"push4", "push5"}

\* the closure f is the inverse of the action a
Inverse(a, f) == (a = "pop" /\ f = "push_back") \/ (IsPush(a) /\ f = "pop")

----------------------------------------------------------------------------
(* Unit records.  Code fields:                                             *)
(*   kind   : "Simple" | "Owning" | "SideEffect"                           *)
(*   undo   : Simple.undo / SideEffect.undo (Option<ManuallyDrop<Undo>>);  *)
(*            for an Owning the field of the inner Simple                  *)
(*   val    : Simple.val / SideEffect.value (ManuallyDrop<T>); for an      *)
(*            Owning the snapshot held by the inner Simple                 *)
(*   inner  : Owning.val is Some (the inner Simple has not been taken)     *)
(*   stored : Owning.stored (ManuallyDrop<T>), the live copy               *)
(*   live   : the object has not been dropped yet                          *)
(*   owner  : "caller" | "stack" (moved into Stack.atoms)                  *)
(* History fields (written once, never read by the operations):            *)
(*   v0, f0 : the arguments of the constructor                             *)
(*   how    : "active" | "undo" | "decay" | "drop" (dropped on its own) |  *)
(*            "scope" (dropped when its scope ended or unwound)            *)
(*   ret    : the value returned by undo / decay, as an Option             *)
(*   act0   : the action of the peel_mut that made a SideEffect            *)
(*   pre, post   : the resource before and after that action               *)
(*   upre, upost : the resource before and after the unit was consumed     *)
(*   inact  : the unit was consumed by a call made inside an executing     *)
(*            peel_mut action                                              *)
(*   nh     : the number of Encased handles the caller held when it made   *)
(*            that call                                                    *)
(***************************************************************************)

\* a unit record with every field at its default
Blank ==
    [kind |-> "", undo |-> None, val |-> None, inner |-> FALSE,
     stored |-> None, live |-> TRUE, owner |-> "caller",
     v0 |-> None, f0 |-> "", how |-> "active", ret |-> None,
     act0 |-> "none", pre |-> None, post |-> None, upre |-> None, upost |-> None,
     inact |-> FALSE, nh |-> 0]

\* Simple::new
NewSimple(v, f) ==
    [Blank EXCEPT !.kind = "Simple", !.undo = Some(f), !.val = Some(v),
                  !.v0 = v, !.f0 = f]

\* Owning::new: the clone goes to the inner Simple, val itself to stored
NewOwning(v, f) ==
    [Blank EXCEPT !.kind = "Owning", !.undo = Some(f), !.val = Some(v),
                  !.inner = TRUE, !.stored = Some(v), !.v0 = v, !.f0 = f]

\* SideEffect::with_parent, with the resource before and after the action
NewSideEffect(v, f, a, before, after) ==
    [Blank EXCEPT !.kind = "SideEffect", !.undo = Some(f), !.val = Some(v),
                  !.v0 = v, !.f0 = f, !.act0 = a,
                  !.pre = Some(before), !.post = Some(after)]

\* one entry of the log of compensation invocations
Call(id, f, v) == [unit |-> id, fn |-> f, arg |-> v]

\* the world the next call starts in
World ==
    [units |-> units, calls |-> calls, res |-> resource, rc |-> rc,
     ret |-> None, out |-> <<>>]

\* the call that led to w returned r
Returning(r, w) == [w EXCEPT !.ret = r]

----------------------------------------------------------------------------
(* Simple *)

\* variant of Simple::undo_mut that leaves the closure in place
SimpleUndoMut_KeepUndo(id, w) ==
    IF IsSome(w.units[id].undo)
    THEN [w EXCEPT
            !.calls = Append(@, Call(id, Unwrap(w.units[id].undo),
                                         Unwrap(w.units[id].val))),
            !.ret = Some(ApplyUndo(Unwrap(w.units[id].undo),
                                   Unwrap(w.units[id].val)))]
    ELSE Returning(None, w)

\* Simple::undo_mut: if undo is Some it is taken and called on the value
\* taken out of val; the result is Option<R>
SimpleUndoMut(id, w) ==
    IF IsSome(w.units[id].undo)
    THEN [w EXCEPT
            !.units[id].undo = None,
            !.units[id].val = None,
            !.calls = Append(@, Call(id, Unwrap(w.units[id].undo),
                                         Unwrap(w.units[id].val))),
            !.ret = Some(ApplyUndo(Unwrap(w.units[id].undo),
                                   Unwrap(w.units[id].val)))]
    ELSE Returning(None, w)

\* variant of Drop for Simple that does not call undo_mut
SimpleDropFn_Forget(id, w) == w

\* impl Drop for Simple: undo_mut, its result thrown away
SimpleDropFn(id, w) == Returning(w.ret, SimpleUndoMut(id, w))

\* Simple::undo(mut self): undo_mut().unwrap(), then self is dropped
SimpleUndoFn(id, w) == SimpleDropFn(id, SimpleUndoMut(id, w))

\* variant of Simple::decay that leaves the closure in place
SimpleDecayFn_KeepUndo(id, w) ==
    SimpleDropFn(id, Returning(w.units[id].val, w))

\* Simple::decay(mut self): the closure is taken and dropped uncalled, the
\* value is taken and returned, then self is dropped
SimpleDecayFn(id, w) ==
    SimpleDropFn(id, [w EXCEPT !.units[id].undo = None,
                               !.units[id].val = None,
                               !.ret = w.units[id].val])

----------------------------------------------------------------------------
(* Owning *)

\* variant of Owning::undo_mut that hands the live copy to the closure
OwningUndoMut_Live(id, w) ==
    IF w.units[id].inner
    THEN SimpleUndoFn(id, [w EXCEPT !.units[id].inner = FALSE,
                                    !.units[id].val = w.units[id].stored])
    ELSE Returning(None, w)

\* Owning::undo_mut: the inner Simple is taken and Simple::undo called on it
OwningUndoMut(id, w) ==
    IF w.units[id].inner
    THEN SimpleUndoFn(id, [w EXCEPT !.units[id].inner = FALSE])
    ELSE Returning(None, w)

\* impl Drop for Owning: undo_mut, its result thrown away
OwningDropFn(id, w) == Returning(w.ret, OwningUndoMut(id, w))

\* Owning::undo(mut self): undo_mut().unwrap(), then self is dropped
OwningUndoFn(id, w) == OwningDropFn(id, OwningUndoMut(id, w))

\* variant of Owning::decay that returns what the inner Simple returned
OwningDecayRet_Snapshot(id, w) == w.ret

\* the value Owning::decay returns: the result of the inner decay is thrown
\* away, the live copy self.stored is taken and returned
OwningDecayRet(id, w) == w.units[id].stored

\* the second statement of Owning::decay
OwningTakeStored(id, w) ==
    [w EXCEPT !.units[id].stored = None, !.ret = OwningDecayRet(id, w)]

\* Owning::decay(mut self): the inner Simple is taken and decayed, the live
\* copy is returned, then self is dropped
OwningDecayFn(id, w) ==
    OwningDropFn(id,
        OwningTakeStored(id,
            SimpleDecayFn(id, [w EXCEPT !.units[id].inner = FALSE])))

----------------------------------------------------------------------------
(* SideEffect *)

\* variant of Drop for SideEffect that does not run the compensation
SeDropFn_Forget(id, w) == w

\* impl Drop for SideEffect: if undo is Some the value and the closure are
\* taken and the closure runs on the resource reached through DerefMut of
\* the parent handle (as_ptr, no borrow check); its result is thrown away
\* and undo itself stays Some
SeDropFn(id, w) ==
    IF IsSome(w.units[id].undo)
    THEN [w EXCEPT
            !.units[id].val = None,
            !.res = ApplySeUndo(Unwrap(w.units[id].undo), @,
                                Unwrap(w.units[id].val)).res,
            !.calls = Append(@, Call(id, Unwrap(w.units[id].undo),
                                         Unwrap(w.units[id].val)))]
    ELSE w

\* a SideEffect goes away: Drop::drop, then its fields, the parent handle
\* among them
SeDropGlue(id, w) == [SeDropFn(id, w) EXCEPT !.rc = @ - 1]

\* variant of SideEffect::undo that goes on to run the compensation of the
\* link made before this one
SeUndoFn_Cascade(id, w) ==
    SeDropFn(IF id > 1 /\ w.units[id - 1].kind = "SideEffect" THEN id - 1 ELSE id,
        SeDropGlue(id,
            [w EXCEPT
                !.units[id].val = None,
                !.units[id].undo = None,
                !.res = ApplySeUndo(Unwrap(w.units[id].undo), @,
                                    Unwrap(w.units[id].val)).res,
                !.calls = Append(@, Call(id, Unwrap(w.units[id].undo),
                                             Unwrap(w.units[id].val))),
                !.ret = Some(ApplySeUndo(Unwrap(w.units[id].undo), w.res,
                                         Unwrap(w.units[id].val)).val)]))

\* variant of SideEffect::undo that leaves the closure and the value in place
SeUndoFn_KeepUndo(id, w) ==
    SeDropGlue(id,
        [w EXCEPT
            !.res = ApplySeUndo(Unwrap(w.units[id].undo), @,
                                Unwrap(w.units[id].val)).res,
            !.calls = Append(@, Call(id, Unwrap(w.units[id].undo),
                                         Unwrap(w.units[id].val))),
            !.ret = Some(ApplySeUndo(Unwrap(w.units[id].undo), w.res,
                                     Unwrap(w.units[id].val)).val)])

\* variant of SideEffect::undo that hands the closure the value the action
\* returned
SeUndoFn_Original(id, w) ==
    SeDropGlue(id,
        [w EXCEPT
            !.units[id].val = None,
            !.units[id].undo = None,
            !.res = ApplySeUndo(Unwrap(w.units[id].undo), @, w.units[id].v0).res,
            !.calls = Append(@, Call(id, Unwrap(w.units[id].undo),
                                         w.units[id].v0)),
            !.ret = Some(ApplySeUndo(Unwrap(w.units[id].undo), w.res,
                                     w.units[id].v0).val)])

\* variant of SideEffect::undo that runs the closure on a copy of the resource
SeUndoFn_OnCopy(id, w) ==
    SeDropGlue(id,
        [w EXCEPT
            !.units[id].val = None,
            !.units[id].undo = None,
            !.calls = Append(@, Call(id, Unwrap(w.units[id].undo),
                                         Unwrap(w.units[id].val))),
            !.ret = Some(ApplySeUndo(Unwrap(w.units[id].undo), w.res,
                                     Unwrap(w.units[id].val)).val)])

\* SideEffect::undo(mut self): the value is taken, the closure is taken out
\* of the Option and run on the resource, then self is dropped
SeUndoFn(id, w) ==
    SeDropGlue(id,
        [w EXCEPT
            !.units[id].val = None,
            !.units[id].undo = None,
            !.res = ApplySeUndo(Unwrap(w.units[id].undo), @,
                                Unwrap(w.units[id].val)).res,
            !.calls = Append(@, Call(id, Unwrap(w.units[id].undo),
                                         Unwrap(w.units[id].val))),
            !.ret = Some(ApplySeUndo(Unwrap(w.units[id].undo), w.res,
                                     Unwrap(w.units[id].val)).val)])

\* variant of SideEffect::decay that leaves the closure and the value in place
SeDecayFn_KeepUndo(id, w) == SeDropGlue(id, Returning(w.units[id].val, w))

\* SideEffect::decay(mut self): the closure is taken and never run, the
\* value is taken and returned, then self is dropped
SeDecayFn(id, w) ==
    SeDropGlue(id, [w EXCEPT !.units[id].undo = None,
                             !.units[id].val = None,
                             !.ret = w.units[id].val])

----------------------------------------------------------------------------
(* Atom: undo, decay and drop of any unit *)

\* Atom::undo, dispatched on the concrete type
UndoFn(id, w) ==
    CASE w.units[id].kind = "Simple"     -> SimpleUndoFn(id, w)
      [] w.units[id].kind = "Owning"     -> OwningUndoFn(id, w)
      [] w.units[id].kind = "SideEffect" -> SeUndoFn(id, w)

\* Atom::decay, dispatched on the concrete type
DecayFn(id, w) ==
    CASE w.units[id].kind = "Simple"     -> SimpleDecayFn(id, w)
      [] w.units[id].kind = "Owning"     -> OwningDecayFn(id, w)
      [] w.units[id].kind = "SideEffect" -> SeDecayFn(id, w)

\* drop, dispatched on the concrete type
DropFn(id, w) ==
    CASE w.units[id].kind = "Simple"     -> SimpleDropFn(id, w)
      [] w.units[id].kind = "Owning"     -> OwningDropFn(id, w)
      [] w.units[id].kind = "SideEffect" -> SeDropGlue(id, w)

\* the history of unit id, consumed by h on the way from world w0 to w
Ended(id, h, w0, w) ==
    [w EXCEPT !.units[id].live = FALSE,
              !.units[id].how = h,
              !.units[id].ret = w.ret,
              !.units[id].upre = Some(w0.res),
              !.units[id].upost = Some(w.res)]

Ids == 1..Len(units)

\* the caller holds the unit and can use it: it is not in the Stack, its
\* scope has not ended and it is not the SideEffect the executing peel_mut
\* was called on
Held(id) ==
    /\ units[id].live /\ units[id].owner = "caller"
    /\ exit = "running"
    /\ IsSome(pending) => Unwrap(pending).via # id

\* the world w becomes the state
Commit(w) ==
    /\ units' = w.units
    /\ calls' = w.calls
    /\ resource' = w.res
    /\ rc' = w.rc

\* the history of unit id, consumed by the caller's call h that took World to w
EndedNow(id, h, w) ==
    [Ended(id, h, World, w) EXCEPT !.units[id].inact = borrowed,
                                   !.units[id].nh = handles]

\* Encased::deref_mut makes a &mut S out of RefCell::as_ptr, without asking
\* the RefCell.  While the RefMut of an executing peel_mut action is alive
\* the two exclusive references alias, which is undefined behaviour: a write
\* made through deref_mut either lands (new) or is lost to the action, which
\* works on its own view of S (old).  With no borrow it lands.
Aliased(old, new) == IF borrowed THEN {new, old} ELSE {new}

\* the worlds a call can end in that took World to w and wrote the resource
\* through deref_mut of a handle
Landing(w) == {[w EXCEPT !.res = r] : r \in Aliased(resource, w.res)}

----------------------------------------------------------------------------
(* Operations on any unit *)

\* atom.undo()
AtomUndo(id) ==
    /\ id \in Ids /\ Held(id)
    /\ \E w \in Landing(UndoFn(id, World)) : Commit(EndedNow(id, "undo", w))
    /\ UNCHANGED <<stack, handles, borrowed, pending, exit, direct>>

\* atom.decay()
AtomDecay(id) ==
    /\ id \in Ids /\ Held(id)
    /\ Commit(EndedNow(id, "decay", DecayFn(id, World)))
    /\ UNCHANGED <<stack, handles, borrowed, pending, exit, direct>>

\* drop(atom), or the atom alone goes out of scope
AtomDrop(id) ==
    /\ id \in Ids /\ Held(id)
    /\ \E w \in Landing(DropFn(id, World)) : Commit(EndedNow(id, "drop", w))
    /\ UNCHANGED <<stack, handles, borrowed, pending, exit, direct>>

\* the units the caller holds are dropped, i first, then i-1 .. 1: locals
\* are dropped in reverse order of declaration
RECURSIVE DropLocals(_, _)
DropLocals(i, w) ==
    IF i = 0 THEN w
    ELSE IF w.units[i].live /\ w.units[i].owner = "caller"
         THEN DropLocals(i - 1, Ended(i, "scope", w, DropFn(i, w)))
         ELSE DropLocals(i - 1, w)

\* the scope holding the units ends
Unwind(how) ==
    /\ Commit(DropLocals(Len(units), World))
    /\ exit' = how

----------------------------------------------------------------------------
(* Operations on Simple and Owning *)

\* rewind::simple(v, f)
SimpleNew(v, f) ==
    /\ Len(units) < MaxUnits
    /\ units' = Append(units, NewSimple(v, f))
    /\ UNCHANGED <<calls, stack, resource, rc, handles, borrowed, pending, exit, direct>>

\* rewind::own(v, f)
OwningNew(v, f) ==
    /\ Len(units) < MaxUnits
    /\ units' = Append(units, NewOwning(v, f))
    /\ UNCHANGED <<calls, stack, resource, rc, handles, borrowed, pending, exit, direct>>

\* Owning::get_mut / DerefMut: the caller overwrites the live copy
OwningGetMut(id, w) ==
    /\ Held(id)
    /\ units[id].kind = "Owning"
    /\ units[id].stored # Some(w)
    /\ units' = [units EXCEPT ![id].stored = Some(w)]
    /\ UNCHANGED <<calls, stack, resource, rc, handles, borrowed, pending, exit, direct>>

\* no resource has been encased
NoResource ==
    /\ resource = <<>>
    /\ rc = 0
    /\ handles = 0
    /\ borrowed = FALSE
    /\ pending = None
    /\ exit = "running"
    /\ direct = 0

\* no Stack has been made
NoStack ==
    [made |-> FALSE, live |-> FALSE, atoms |-> <<>>,
     members |-> <<>>, how |-> "active", ret |-> <<>>]

InitAtom ==
    /\ units = <<>>
    /\ calls = <<>>
    /\ stack = NoStack
    /\ NoResource

NextAtom ==
    \/ \E v \in Vals, f \in AtomFns : SimpleNew(v, f)
    \/ \E v \in Vals, f \in AtomFns : OwningNew(v, f)
    \/ \E id \in Ids, w \in LiveVals : OwningGetMut(id, w)
    \/ \E id \in Ids : AtomUndo(id)
    \/ \E id \in Ids : AtomDecay(id)
    \/ \E id \in Ids : AtomDrop(id)

SpecAtom == InitAtom /\ [][NextAtom]_vars

----------------------------------------------------------------------------
(* Encased and SideEffect *)

\* a handle other than the one the executing peel_mut was called on is at hand
HandleFree ==
    /\ exit = "running"
    /\ handles >= (IF IsSome(pending) /\ Unwrap(pending).via = 0 THEN 2 ELSE 1)

\* variant of Encased::clone that wraps a copy of the resource in an Rc of
\* its own
EncasedClone_Copy ==
    /\ HandleFree /\ pending = None
    /\ handles < MaxHandles
    /\ handles' = handles + 1
    /\ UNCHANGED <<units, calls, stack, resource, rc, borrowed, pending, exit, direct>>

\* Encased::clone
EncasedClone ==
    /\ HandleFree /\ pending = None
    /\ handles < MaxHandles
    /\ handles' = handles + 1
    /\ rc' = rc + 1
    /\ UNCHANGED <<units, calls, stack, resource, borrowed, pending, exit, direct>>

\* drop of an Encased handle
EncasedDrop ==
    /\ HandleFree /\ pending = None
    /\ handles' = handles - 1
    /\ rc' = rc - 1
    /\ UNCHANGED <<units, calls, stack, resource, borrowed, pending, exit, direct>>

\* handle.push(k): DerefMut of Encased reaches the resource through as_ptr
EncasedPush(k) ==
    /\ HandleFree
    /\ direct < MaxDirect
    /\ resource' \in Aliased(resource, Append(resource, k))
    /\ direct' = direct + 1
    /\ UNCHANGED <<units, calls, stack, rc, handles, borrowed, pending, exit>>

\* variant of the start of peel_mut that reaches the resource without
\* borrow_mut
PeelMutBegin_NoCheck(via, a, f) ==
    /\ IF via = 0 THEN HandleFree
                  ELSE via \in Ids /\ Held(via) /\ units[via].kind = "SideEffect"
    /\ Len(units) < MaxUnits
    /\ borrowed' = TRUE
    /\ resource' = ApplyAct(a, resource).res
    /\ pending' = Some([via |-> via, act |-> a, undo |-> f,
                        stored |-> ApplyAct(a, resource).val,
                        before |-> resource])
    /\ UNCHANGED <<units, calls, stack, rc, handles, exit, direct>>

\* Encased::peel_mut (via = 0) or SideEffect::peel_mut (via = the SideEffect),
\* up to the start of the action: borrow_mut panics if the RefCell is
\* borrowed and the panic unwinds the caller; otherwise the action runs
PeelMutBegin(via, a, f) ==
    /\ IF via = 0 THEN HandleFree
                  ELSE via \in Ids /\ Held(via) /\ units[via].kind = "SideEffect"
    /\ Len(units) < MaxUnits
    /\ IF borrowed
       THEN /\ Unwind("panic")
            /\ borrowed' = FALSE
            /\ pending' = None
            /\ UNCHANGED <<stack, handles, direct>>
       ELSE /\ borrowed' = TRUE
            /\ resource' = ApplyAct(a, resource).res
            /\ pending' = Some([via |-> via, act |-> a, undo |-> f,
                                stored |-> ApplyAct(a, resource).val,
                                before |-> resource])
            /\ UNCHANGED <<units, calls, stack, rc, handles, exit, direct>>

\* variant of the end of peel_mut that keeps the RefMut, and so the borrow
PeelMutEnd_KeepBorrow ==
    /\ exit = "running"
    /\ IsSome(pending)
    /\ units' = Append(units,
                  NewSideEffect(Unwrap(pending).stored, Unwrap(pending).undo,
                                Unwrap(pending).act, Unwrap(pending).before,
                                resource))
    /\ pending' = None
    /\ rc' = rc + 1
    /\ UNCHANGED <<calls, stack, resource, handles, exit, direct, borrowed>>

\* peel_mut from the return of the action: the RefMut, a temporary of the
\* statement that ran the action, is gone, so the borrow ends, and the
\* SideEffect is built around a clone of the Rc
PeelMutEnd ==
    /\ exit = "running"
    /\ IsSome(pending)
    /\ units' = Append(units,
                  NewSideEffect(Unwrap(pending).stored, Unwrap(pending).undo,
                                Unwrap(pending).act, Unwrap(pending).before,
                                resource))
    /\ borrowed' = FALSE
    /\ pending' = None
    /\ rc' = rc + 1
    /\ UNCHANGED <<calls, stack, resource, handles, exit, direct>>

\* SideEffect::deref_mut: the caller overwrites the value held
SeDerefMut(id, w) ==
    /\ id \in Ids /\ Held(id)
    /\ units[id].kind = "SideEffect"
    /\ units[id].val # Some(w)
    /\ units' = [units EXCEPT ![id].val = Some(w)]
    /\ UNCHANGED <<calls, stack, resource, rc, handles, borrowed, pending, exit, direct>>

\* the scope holding the SideEffects ends, normally or with an error
ScopeExit(how) ==
    /\ exit = "running" /\ pending = None
    /\ Unwind(how)
    /\ UNCHANGED <<stack, handles, borrowed, pending, direct>>

\* encase(r0)
InitEncased ==
    /\ units = <<>>
    /\ calls = <<>>
    /\ stack = NoStack
    /\ resource \in InitRes
    /\ rc = 1
    /\ handles = 1
    /\ borrowed = FALSE
    /\ pending = None
    /\ exit = "running"
    /\ direct = 0

NextEncased ==
    \/ \E k \in PushVals : EncasedPush(k)
    \/ \E via \in {0} \cup Ids, a \in Acts, f \in SeFns : PeelMutBegin(via, a, f)
    \/ PeelMutEnd
    \/ \E id \in Ids : AtomUndo(id)
    \/ \E id \in Ids : AtomDecay(id)
    \/ \E id \in Ids : AtomDrop(id)
    \/ \E how \in {"return", "error"} : ScopeExit(how)

SpecEncased == InitEncased /\ [][NextEncased]_vars

----------------------------------------------------------------------------
(* Encased shared between clones of the handle: encase(vec![1, 2, 3]), with *)
(* pops as the sub-operations                                               *)

\* values the caller writes over the Option a pop returned, through
\* DerefMut of the SideEffect
SeVals == {None, Some(7)}

\* encase(vec![1, 2, 3])
InitShared ==
    /\ InitEncased
    /\ resource = <<1, 2, 3>>

NextShared ==
    \/ EncasedClone
    \/ EncasedDrop
    \/ EncasedPush(4)
    \/ \E via \in {0} \cup Ids, f \in SeFns : PeelMutBegin(via, "pop", f)
    \/ PeelMutEnd
    \/ \E id \in Ids, v \in SeVals : SeDerefMut(id, v)
    \/ \E id \in Ids : AtomUndo(id)
    \/ \E id \in Ids : AtomDecay(id)
    \/ \E id \in Ids : AtomDrop(id)

SpecShared == InitShared /\ [][NextShared]_vars

----------------------------------------------------------------------------
(* Stack (stack.rs).  Code field: atoms, the ids of the boxed StackAtoms in  *)
(* Stack.atoms.  History fields: made (a Stack was built), live, members    *)
(* (atoms as it was when the Stack was consumed), how, ret (the Vec that    *)
(* undo / cancel returned).                                                  *)

\* the atoms a caller hands to push / chain
NewAtoms ==
    {NewSimple(v, f) : v \in Vals, f \in AtomFns} \cup {NewOwning(<<1>>, "push9")}

\* StackAtom::undo: Box::new(self.0.undo())
StackAtomUndoFn(id, w) == UndoFn(id, w)

\* StackAtom::cancel: Box::new(self.0.cancel())
StackAtomCancelFn(id, w) == DecayFn(id, w)

\* variant of the drop of a StackAtom that ends with the body of Drop::drop
StackAtomDropFn_Forget(id, w) == w

\* impl Drop for StackAtom: the body drops a reference, which does nothing;
\* the wrapped atom is dropped afterwards as a field
StackAtomDropFn(id, w) == DropFn(id, w)

\* the order in which Stack::undo and Stack::cancel go through atoms:
\* Vec::into_iter, front to back
IterOrder(atoms) == atoms

\* the order in which the members are dropped with the Vec: front to back
VecDropOrder(atoms) == atoms

\* op applied to one member
StackOp(op, id, w) ==
    CASE op = "undo"  -> StackAtomUndoFn(id, w)
      [] op = "decay" -> StackAtomCancelFn(id, w)
      [] op = "drop"  -> StackAtomDropFn(id, w)

\* collect(): the result of the member joins the Vec returned
Collect(w) == [w EXCEPT !.out = @ \o w.ret, !.ret = None]

\* op applied to the members in the order given
RECURSIVE StackEach(_, _, _)
StackEach(op, order, w) ==
    IF order = <<>> THEN w
    ELSE StackEach(op, Tail(order),
             Collect(Ended(Head(order), op, w, StackOp(op, Head(order), w))))

\* the Stack can be used
StackLive == stack.made /\ stack.live

\* Stack::new
StackNew ==
    /\ ~stack.made
    /\ stack' = [NoStack EXCEPT !.made = TRUE, !.live = TRUE]
    /\ UNCHANGED <<units, calls, resource, rc, handles, borrowed, pending, exit, direct>>

\* Stack::push(atom)
StackPush(atom) ==
    /\ StackLive
    /\ Len(units) < MaxMembers
    /\ units' = Append(units, [atom EXCEPT !.owner = "stack"])
    /\ stack' = [stack EXCEPT !.atoms = Append(@, Len(units) + 1)]
    /\ UNCHANGED <<calls, resource, rc, handles, borrowed, pending, exit, direct>>

\* variant of Stack::pop that takes the element pushed first
StackPop_Front ==
    /\ StackLive
    /\ IF stack.atoms = <<>>
       THEN UNCHANGED <<units, stack>>
       ELSE /\ units' = [units EXCEPT ![Head(stack.atoms)].owner = "caller"]
            /\ stack' = [stack EXCEPT !.atoms = Tail(@)]
    /\ UNCHANGED <<calls, resource, rc, handles, borrowed, pending, exit, direct>>

\* Stack::pop: the last element goes to the caller
StackPop ==
    /\ StackLive
    /\ IF stack.atoms = <<>>
       THEN UNCHANGED <<units, stack>>
       ELSE /\ units' = [units EXCEPT ![stack.atoms[Len(stack.atoms)]].owner = "caller"]
            /\ stack' = [stack EXCEPT !.atoms = SubSeq(@, 1, Len(@) - 1)]
    /\ UNCHANGED <<calls, resource, rc, handles, borrowed, pending, exit, direct>>

\* StackedAtom::chain: a.chain(b) is a new Stack with a pushed, then b
Chain(a, b) ==
    /\ ~stack.made
    /\ Len(units) + 2 <= MaxMembers
    /\ units' = units \o <<[a EXCEPT !.owner = "stack"], [b EXCEPT !.owner = "stack"]>>
    /\ stack' = [NoStack EXCEPT !.made = TRUE, !.live = TRUE,
                                !.atoms = <<Len(units) + 1, Len(units) + 2>>]
    /\ UNCHANGED <<calls, resource, rc, handles, borrowed, pending, exit, direct>>

\* the Stack is consumed by op and w is the world after it
StackConsumed(op, w) ==
    /\ Commit(w)
    /\ stack' = [stack EXCEPT !.live = FALSE, !.atoms = <<>>,
                              !.members = stack.atoms, !.how = op, !.ret = w.out]
    /\ UNCHANGED <<handles, borrowed, pending, exit, direct>>

\* Stack::undo
StackUndo ==
    /\ StackLive
    /\ StackConsumed("undo", StackEach("undo", IterOrder(stack.atoms), World))

\* Stack::cancel
StackCancel ==
    /\ StackLive
    /\ StackConsumed("decay", StackEach("decay", IterOrder(stack.atoms), World))

\* impl Drop for Stack: the body is empty, the Vec is dropped as a field
StackDrop ==
    /\ StackLive
    /\ StackConsumed("drop", StackEach("drop", VecDropOrder(stack.atoms), World))

InitStack ==
    /\ units = <<>>
    /\ calls = <<>>
    /\ stack = NoStack
    /\ NoResource

NextStack ==
    \/ StackNew
    \/ \E a \in NewAtoms : StackPush(a)
    \/ StackPop
    \/ \E a, b \in NewAtoms : Chain(a, b)
    \/ StackUndo
    \/ StackCancel
    \/ StackDrop
    \/ \E id \in Ids : AtomUndo(id)
    \/ \E id \in Ids : AtomDecay(id)
    \/ \E id \in Ids : AtomDrop(id)

SpecStack == InitStack /\ [][NextStack]_vars

----------------------------------------------------------------------------
(* Properties *)

\* the invocations of the compensation of unit id, in order
CallsOf(id) == SelectSeq(calls, LAMBDA c : c.unit = id)

\* C1: a Simple atom created from (v, f) and abandoned has had f invoked
\* exactly once, with v: the log of invocations for it is that of f(v).
C1_AbandonedSimpleFiresOnce ==
    \A id \in Ids :
        (units[id].kind = "Simple" /\ units[id].how = "drop")
            => CallsOf(id) = <<Call(id, units[id].f0, units[id].v0)>>

C1_Witness ==
    \E id \in Ids :
        /\ units[id].kind = "Simple" /\ units[id].how = "drop"
        /\ units[id].f0 = "push9" /\ ~units[id].live

\* C2: a Simple atom created from (v, f) and decayed has returned v and f
\* has not been invoked for it, by decay or by the drop that follows.
C2_DecayedSimpleReturnsValue ==
    \A id \in Ids :
        (units[id].kind = "Simple" /\ units[id].how = "decay")
            => /\ units[id].ret = Some(units[id].v0)
               /\ CallsOf(id) = <<>>
               /\ ~units[id].live

C2_Witness ==
    \E id \in Ids :
        /\ units[id].kind = "Simple" /\ units[id].how = "decay"
        /\ units[id].f0 = "push9" /\ units[id].ret = Some(<<1, 2>>)

\* the number of invocations a unit must show for the way it ended
FiredFor(h) == IF h \in {"undo", "drop"} THEN 1 ELSE 0

\* C3: the compensation of a Simple or Owning atom is invoked at most once:
\* not at all while it is active or once it decayed, exactly once after undo
\* and after abandonment; a consumed atom never changes again.
C3_AtMostOnce ==
    /\ [](\A id \in Ids :
            /\ Len(CallsOf(id)) = FiredFor(units[id].how)
            /\ units[id].live <=> units[id].how = "active")
    /\ [][\A id \in Ids :
            ~units[id].live => /\ units'[id] = units[id]
                               /\ CallsOf(id)' = CallsOf(id)]_vars

C3_Witness ==
    \E i, j \in Ids :
        /\ units[i].kind = "Simple" /\ units[i].how = "undo"
        /\ units[j].kind = "Owning" /\ units[j].how = "drop"
        /\ Len(calls) = 2

\* C10 as stated: decay of an Owning atom returns the snapshot taken at
\* creation and invokes nothing.
C10_DecayReturnsSnapshot ==
    \A id \in Ids :
        (units[id].kind = "Owning" /\ units[id].how = "decay")
            => /\ units[id].ret = Some(units[id].v0)
               /\ CallsOf(id) = <<>>

\* C10 amended: decay of an Owning atom returns the live copy as the caller
\* left it (Owning.stored) and invokes nothing.
C10_DecayReturnsLive ==
    [][\A id \in Ids :
        (units[id].kind = "Owning" /\ units[id].live /\ units'[id].how = "decay")
            => /\ units'[id].ret = units[id].stored
               /\ calls' = calls]_vars

C10_Witness ==
    \E id \in Ids :
        /\ units[id].kind = "Owning" /\ units[id].how = "decay"
        /\ units[id].v0 = <<1, 2>> /\ units[id].ret = Some(<<1, 2, 3>>)
        /\ CallsOf(id) = <<>>

\* the SideEffects
SeIds == {id \in Ids : units[id].kind = "SideEffect"}

\* the units dropped when their scope ended
ScopeIds == {id \in Ids : units[id].how = "scope"}

\* the action of the peel_mut that made the SideEffect did exactly what the
\* closure handed in does
Pure(id) ==
    units[id].post = Some(ApplyAct(units[id].act0, Unwrap(units[id].pre)).res)

\* the SideEffect pairs an action with its inverse
Inv(id) == Pure(id) /\ Inverse(units[id].act0, units[id].f0)

\* the place in the log of the invocation for unit id
CallIndex(id) == CHOOSE n \in 1..Len(calls) : calls[n].unit = id

\* C4: once the scope holding the SideEffects has ended (normally or early
\* with an error) no SideEffect is left alive, and each one that was still
\* un-consumed had its compensation run exactly once, on the shared
\* resource; the last to run left the resource as it is now, and a
\* compensation that is the inverse of its action, run on the resource as
\* the action left it, brought back the resource the action found.
C4_ErrorExitCompensates ==
    exit # "running" =>
        \A id \in SeIds :
            /\ ~units[id].live
            /\ units[id].how = "scope" =>
                /\ Len(CallsOf(id)) = 1
                /\ CallsOf(id)[1].fn = units[id].f0
                /\ units[id].upost =
                     Some(ApplySeUndo(units[id].f0, Unwrap(units[id].upre),
                                      CallsOf(id)[1].arg).res)
                /\ (\A k \in ScopeIds : id <= k) => units[id].upost = Some(resource)
                /\ (Inv(id) /\ units[id].upre = units[id].post)
                       => units[id].upost = units[id].pre

C4_Witness ==
    /\ exit = "error"
    /\ Len(units) = 1 /\ direct = 2
    /\ units[1].act0 = "pop" /\ units[1].f0 = "push_back"
    /\ units[1].pre = Some(<<4, 5>>) /\ units[1].post = Some(<<4>>)
    /\ units[1].how = "scope"
    /\ calls = <<Call(1, "push_back", Some(5))>>
    /\ resource = <<4, 5>>

\* the unit's compensation has run
Compensated(id) == units[id].how \in {"undo", "drop", "scope"}

\* the compensation of the unit did to the resource what its closure does
Landed(id) ==
    units[id].upost =
        Some(ApplySeUndo(units[id].f0, Unwrap(units[id].upre),
                         CallsOf(id)[1].arg).res)

\* C5: for two sub-operations whose compensations are inverses, the second
\* performed on the resource the first left and compensated first, the
\* first compensated on what that left, neither from inside an executing
\* action: the compensation of the first leaves the resource the first
\* action found.
C5_RoundTrip ==
    \A i, j \in SeIds :
        ( /\ i < j
          /\ Compensated(i) /\ Compensated(j)
          /\ ~units[i].inact /\ ~units[j].inact
          /\ Inv(i) /\ Inv(j)
          /\ units[j].pre = units[i].post
          /\ units[j].upre = units[j].post
          /\ units[i].upre = units[j].upost )
        => units[i].upost = units[i].pre

C5_Witness ==
    \E i, j \in SeIds :
        /\ i < j
        /\ units[i].how = "undo" /\ units[j].how = "undo"
        /\ Inv(i) /\ Inv(j)
        /\ units[i].act0 = "pop" /\ IsPush(units[j].act0)
        /\ units[i].pre = Some(<<1, 2, 3>>)
        /\ units[j].pre = units[i].post
        /\ units[j].upre = units[j].post
        /\ units[i].upre = units[j].upost
        /\ resource = <<1, 2, 3>>

\* a SideEffect is un-consumed
LiveSe == \E id \in SeIds : units[id].live

\* this step is a call of peel_mut made while no action is executing
PeelStarts == pending = None /\ (IsSome(pending') \/ exit' = "panic")

\* C6 as stated: a peel_mut started while an earlier SideEffect is still
\* un-consumed panics and leaves the resource as it was.
C6_SecondPeelPanics ==
    [][(LiveSe /\ PeelStarts)
         => (exit' = "panic" /\ pending' = None /\ resource' = resource)]_vars

\* C6 amended: a peel_mut started while an earlier SideEffect is still
\* un-consumed does not panic; its action runs on the resource and the
\* earlier SideEffects stay as they were.
C6_SecondPeelRuns ==
    [][(LiveSe /\ PeelStarts)
         => /\ exit' = "running"
            /\ IsSome(pending')
            /\ resource' = ApplyAct(Unwrap(pending').act, resource).res
            /\ units' = units]_vars

C6_Witness ==
    /\ LiveSe
    /\ IsSome(pending)
    /\ resource # Unwrap(pending).before
    /\ exit = "running"

\* C7: between calls of peel_mut the RefCell is not borrowed; two
\* SideEffects abandoned together at the end of their scope are compensated
\* later one first, and when both pair an action with its inverse, the
\* second made right after the first, the resource is back to what the
\* first action found.
C7_BorrowReleased ==
    /\ pending = None => ~borrowed
    /\ \A i, j \in SeIds \cap ScopeIds :
        i < j =>
            /\ CallIndex(j) < CallIndex(i)
            /\ ( /\ Inv(i) /\ Inv(j)
                 /\ units[j].pre = units[i].post
                 /\ units[j].upre = units[j].post
                 /\ units[i].upre = units[j].upost
                 /\ \A k \in ScopeIds : i <= k )
               => resource = Unwrap(units[i].pre)

C7_Witness ==
    /\ exit = "return"
    /\ Len(units) = 2
    /\ units[1].how = "scope" /\ units[2].how = "scope"
    /\ units[1].act0 = "push4" /\ units[2].act0 = "push5"
    /\ units[1].pre = Some(<<1, 2, 3>>)
    /\ units[2].pre = Some(<<1, 2, 3, 4>>)
    /\ units[2].post = Some(<<1, 2, 3, 4, 5>>)
    /\ calls = <<Call(2, "pop", None), Call(1, "pop", None)>>
    /\ resource = <<1, 2, 3>>

\* a sequence back to front
RECURSIVE Reverse(_)
Reverse(q) == IF q = <<>> THEN <<>> ELSE Append(Reverse(Tail(q)), Head(q))

\* the members of the consumed Stack in the order their compensations ran
FiredOrder ==
    LET mine == SelectSeq(calls, LAMBDA c : \E n \in 1..Len(stack.members) :
                                              stack.members[n] = c.unit)
    IN  [n \in 1..Len(mine) |-> mine[n].unit]

\* C8 as stated: a Stack that is abandoned fires the compensations of its
\* members last pushed first, each once.
C8_StackDropLifo ==
    (stack.made /\ stack.how = "drop") => FiredOrder = Reverse(stack.members)

\* what undo hands back for member id
UndoResult(id) == ApplyUndo(units[id].f0, units[id].v0)

\* C9 as stated: undo of a Stack fires the compensations of its members last
\* pushed first and returns their results in that order.
C9_StackUndoLifo ==
    (stack.made /\ stack.how = "undo") =>
        /\ FiredOrder = Reverse(stack.members)
        /\ stack.ret = [n \in 1..Len(stack.members) |->
                          UndoResult(Reverse(stack.members)[n])]

\* the Owning atoms
OwningIds == {id \in Ids : units[id].kind = "Owning"}

\* C11: reads and writes of the live copy of an Owning atom made from (v, f)
\* leave the snapshot and the pending compensation as they were: while the
\* atom is active the inner Simple still holds v and f, a write through
\* get_mut / DerefMut changes the live copy only, undo returns f(v) whatever
\* the live copy holds, and undo and abandonment invoke f on v, once.
C11_LiveCopyIsSeparate ==
    /\ [](\A id \in OwningIds :
            /\ units[id].live
                 => /\ units[id].inner
                    /\ units[id].val = Some(units[id].v0)
                    /\ units[id].undo = Some(units[id].f0)
            /\ units[id].how = "undo"
                 => units[id].ret = Some(ApplyUndo(units[id].f0, units[id].v0))
            /\ units[id].how \in {"undo", "drop"}
                 => CallsOf(id) = <<Call(id, units[id].f0, units[id].v0)>>)
    /\ [][\A id \in OwningIds :
            (units[id].live /\ units'[id].stored # units[id].stored
                            /\ units'[id].live)
                => /\ units' = [units EXCEPT ![id].stored = units'[id].stored]
                   /\ calls' = calls]_vars

C11_Witness ==
    \E i, j \in OwningIds :
        /\ units[i].how = "undo" /\ units[i].v0 = <<1>>
        /\ units[i].stored = Some(<<1, 2, 3>>)
        /\ units[i].ret = Some(<<1, 9>>)
        /\ units[j].how = "drop" /\ units[j].v0 = <<1, 2>>
        /\ units[j].stored = Some(<<>>)
        /\ calls = <<Call(i, "push9", <<1>>), Call(j, "id", <<1, 2>>)>>

\* this step consumes the SideEffect id alone: undo, decay or drop of it
ConsumedAlone(id) ==
    /\ units[id].kind = "SideEffect"
    /\ units[id].live /\ ~units'[id].live
    /\ units'[id].how \in {"undo", "decay", "drop"}

\* two pops made one after the other on [1, 2, 3], each to be compensated by
\* pushing back what it popped
TwoPops ==
    /\ Len(units) = 2 /\ direct = 0 /\ pending = None
    /\ units[1].act0 = "pop" /\ units[1].f0 = "push_back"
    /\ units[2].act0 = "pop" /\ units[2].f0 = "push_back"
    /\ units[1].pre = Some(<<1, 2, 3>>) /\ units[1].v0 = Some(3)
    /\ units[2].pre = Some(<<1, 2>>) /\ units[2].v0 = Some(2)

\* C12: undo, decay or drop of one SideEffect runs at most the compensation
\* of that SideEffect, on the shared resource (a write that can be lost only
\* inside an executing peel_mut action), and leaves every other unit
\* as it was, active ones active with their compensation not run; on
\* [1, 2, 3], after two pops (3, then 2) and undo of the second alone, the
\* resource is [1, 2] and the first SideEffect is still active.
C12_OnlyThatLink ==
    /\ [][\A id \in Ids :
            ConsumedAlone(id)
                => /\ Len(units') = Len(units)
                   /\ \A j \in Ids \ {id} : /\ units'[j] = units[j]
                                            /\ CallsOf(j)' = CallsOf(j)
                   /\ \/ calls' = calls /\ resource' = resource
                      \/ /\ calls' = Append(calls, Call(id, units[id].f0,
                                                        Unwrap(units[id].val)))
                         /\ resource' \in
                              Aliased(resource,
                                      ApplySeUndo(units[id].f0, resource,
                                                  Unwrap(units[id].val)).res)]_vars
    /\ []((TwoPops /\ units[1].live /\ units[2].how = "undo"
                   /\ units[2].upre = Some(<<1>>))
            => /\ resource = <<1, 2>>
               /\ units[1].how = "active" /\ IsSome(units[1].undo)
               /\ calls = <<Call(2, "push_back", Some(2))>>)

C12_Witness ==
    /\ TwoPops
    /\ units[1].live /\ units[1].how = "active"
    /\ units[2].how = "undo" /\ units[2].upre = Some(<<1>>)
    /\ resource = <<1, 2>>
    /\ CallsOf(1) = <<>>

\* C13: the compensation of a SideEffect is invoked at most once: not at all
\* while it is active or once it decayed, exactly once, with its own closure
\* on the shared resource, after undo and after abandonment (dropped alone
\* or with its scope); run outside an executing action it leaves the
\* resource as its closure does; the drop that follows undo or decay
\* invokes nothing, and a consumed SideEffect never changes again.
C13_SideEffectAtMostOnce ==
    /\ [](\A id \in SeIds :
            /\ units[id].live <=> units[id].how = "active"
            /\ Len(CallsOf(id)) = (IF Compensated(id) THEN 1 ELSE 0)
            /\ Compensated(id)
                 => /\ CallsOf(id)[1].fn = units[id].f0
                    /\ ~units[id].inact => Landed(id))
    /\ [][\A id \in SeIds :
            ~units[id].live => /\ units'[id] = units[id]
                               /\ CallsOf(id)' = CallsOf(id)]_vars

C13_Witness ==
    \E i, j \in SeIds :
        /\ units[i].how = "undo" /\ units[j].how = "drop"
        /\ Landed(i) /\ units[i].upost # units[i].upre
        /\ Landed(j) /\ units[j].upost # units[j].upre
        /\ Len(calls) = 2

\* C14: decay of a SideEffect returns the value the SideEffect holds and
\* leaves the shared resource and the log of invocations as they were; the
\* compensation of a decayed SideEffect is never invoked, by decay or by the
\* drop that ends it, so the effect of its action stays.
C14_DecayKeepsEffect ==
    /\ [][\A id \in SeIds :
            (units[id].live /\ units'[id].how = "decay")
                => /\ units'[id].ret = units[id].val
                   /\ ~units'[id].live
                   /\ resource' = resource
                   /\ calls' = calls]_vars
    /\ [](\A id \in SeIds :
            units[id].how = "decay"
                => /\ CallsOf(id) = <<>>
                   /\ units[id].upost = units[id].upre)

C14_Witness ==
    /\ exit = "return"
    /\ Len(units) = 1 /\ direct = 0
    /\ units[1].act0 = "pop" /\ units[1].f0 = "push_back"
    /\ units[1].pre = Some(<<1, 2, 3>>)
    /\ units[1].how = "decay"
    /\ units[1].ret = Some(Some(3))
    /\ resource = <<1, 2>>
    /\ calls = <<>>

\* C15: a peel_mut called while the action of another peel_mut on the same
\* resource is executing panics: from a state with an executing action the
\* only steps are calls that leave it executing, its return (which makes its
\* SideEffect) and the panic, which starts no action, makes no SideEffect,
\* ends the borrow and unwinds the caller, dropping the units it held.
C15_ReentrantPeelPanics ==
    /\ [](IsSome(pending) <=> borrowed)
    /\ [][IsSome(pending) =>
            \/ pending' = pending /\ exit' = "running" /\ Len(units') = Len(units)
            \/ /\ pending' = None /\ exit' = "running"
               /\ Len(units') = Len(units) + 1
            \/ /\ exit' = "panic"
               /\ pending' = None /\ ~borrowed'
               /\ Len(units') = Len(units)
               /\ \A id \in Ids : ~units'[id].live]_vars

\* the handle was cloned, peel_mut was called on one handle and, from inside
\* its action, on the other: the pop of the outer action stays, no
\* SideEffect was made
C15_Witness ==
    /\ exit = "panic"
    /\ handles = 2
    /\ units = <<>>
    /\ resource = <<1, 2>>
    /\ pending = None /\ ~borrowed

\* C16 as stated: while the action of a peel_mut holds the mutable borrow no
\* other path gets mutable access to the resource: a step that leaves the
\* action executing and the caller running makes no direct write through a
\* handle and runs no compensation (by undo or by drop of a SideEffect), and
\* the resource is what the action made it.
C16_ExclusiveAccess ==
    [][(IsSome(pending) /\ pending' = pending /\ exit' = "running")
         => /\ direct' = direct
            /\ calls' = calls
            /\ resource' = resource]_vars

\* the unit pushed last onto the Stack
LastPushed == stack.atoms[Len(stack.atoms)]

\* C17: pop takes the unit pushed last out of the Stack and hands it to the
\* caller as it is, with no compensation invoked; the other members stay, in
\* their order; when the Stack is consumed later (undo, cancel or drop) the
\* units the caller holds are not touched and nothing is invoked for them.
C17_PopHandsOver ==
    /\ [][(StackLive /\ stack'.live /\ Len(stack'.atoms) < Len(stack.atoms))
            => /\ stack'.atoms = SubSeq(stack.atoms, 1, Len(stack.atoms) - 1)
               /\ \A n \in 1..Len(stack'.atoms) : stack'.atoms[n] < LastPushed
               /\ units[LastPushed].live /\ units[LastPushed].owner = "stack"
               /\ units' = [units EXCEPT ![LastPushed].owner = "caller"]
               /\ calls' = calls]_vars
    /\ [][(StackLive /\ ~stack'.live)
            => \A id \in Ids :
                 units[id].owner = "caller"
                    => /\ units'[id] = units[id]
                       /\ CallsOf(id)' = CallsOf(id)]_vars

C17_Witness ==
    /\ stack.made /\ ~stack.live /\ stack.how = "undo"
    /\ stack.members = <<1, 2>>
    /\ Len(units) = 3
    /\ units[3].owner = "caller" /\ units[3].live /\ IsSome(units[3].undo)
    /\ CallsOf(3) = <<>>
    /\ Len(calls) = 2

\* the Stack has been consumed
StackGone == stack.made /\ ~stack.live

\* the members the consumed Stack had
Members == {stack.members[n] : n \in 1..Len(stack.members)}

\* C18: consuming a Stack reaches every member once: after undo and after
\* abandonment of the Stack each member is gone and its compensation has
\* been invoked exactly once, on the value it was made with; after cancel
\* each member is gone and nothing has been invoked for it; and once the
\* Stack is consumed neither it nor its members change, so nothing is
\* invoked for them later.
C18_StackReachesEachOnce ==
    /\ [](StackGone =>
            \A m \in Members :
                /\ ~units[m].live
                /\ units[m].how = stack.how
                /\ CallsOf(m) = IF stack.how \in {"undo", "drop"}
                                THEN <<Call(m, units[m].f0, units[m].v0)>>
                                ELSE <<>>)
    /\ [][StackGone =>
            /\ stack' = stack
            /\ \A m \in Members : /\ units'[m] = units[m]
                                   /\ CallsOf(m)' = CallsOf(m)]_vars

C18_Witness ==
    /\ StackGone /\ stack.how = "drop"
    /\ stack.members = <<1, 2, 3>>
    /\ Len(calls) = 3
    /\ \E m \in Members : units[m].kind = "Owning"

\* the SideEffects that have not been dropped
LiveSeIds == {id \in SeIds : units[id].live}

\* C19: the handles and the SideEffects made from one encase share one
\* resource: the strong count of its Rc is the number of handles plus the
\* number of SideEffects not yet dropped, so the resource goes away exactly
\* when the last of them has gone; every action starts from the resource
\* as the writes made through the others left it, and every compensation
\* that runs alone, with or without a handle left, is applied to that
\* resource (a write that can be lost only inside an executing action).
C19_OneSharedResource ==
    /\ [](/\ rc = handles + Cardinality(LiveSeIds)
          /\ rc = 0 <=> (handles = 0 /\ LiveSeIds = {}))
    /\ [][(pending = None /\ IsSome(pending'))
            => /\ Unwrap(pending').before = resource
               /\ resource' = ApplyAct(Unwrap(pending').act, resource).res]_vars
    /\ [][Len(calls') = Len(calls) + 1
            => resource' \in
                 Aliased(resource,
                         ApplySeUndo(calls'[Len(calls')].fn, resource,
                                     calls'[Len(calls')].arg).res)]_vars

\* 4 was pushed through a handle, 4 and 3 were popped, 4 was pushed again,
\* the handles were dropped, then the second pop was undone: its 3 landed
\* behind the 4, in the Vec the first SideEffect still refers to
C19_Witness ==
    /\ handles = 0 /\ rc = 1 /\ direct = 2
    /\ Len(units) = 2
    /\ units[1].pre = Some(<<1, 2, 3, 4>>) /\ units[1].live
    /\ units[2].pre = Some(<<1, 2, 3>>)
    /\ units[2].how = "undo" /\ ~units[2].inact /\ units[2].nh = 0
    /\ units[2].upre = Some(<<1, 2, 4>>)
    /\ units[2].upost = Some(<<1, 2, 4, 3>>)
    /\ resource = <<1, 2, 4, 3>>

\* C20: the value a SideEffect hands to its compensation, on undo and on
\* drop, is the value it holds at that moment: a write through DerefMut of
\* the SideEffect replaces the value held and nothing else, and it is the
\* written value, not the one the action returned, that the closure gets.
C20_CompensationGetsHeldValue ==
    /\ [][\A id \in SeIds :
            (units[id].live /\ ~units'[id].live /\ units'[id].how # "decay")
                => CallsOf(id)' = <<Call(id, units[id].f0,
                                         Unwrap(units[id].val))>>]_vars
    /\ [][\A id \in SeIds :
            (units[id].live /\ units'[id].live
                            /\ units'[id].val # units[id].val)
                => /\ units' = [units EXCEPT ![id].val = units'[id].val]
                   /\ calls' = calls
                   /\ resource' = resource]_vars

\* a pop returned Some(3), the caller wrote Some(7) over it and undid the
\* pop: 7 was pushed back
C20_Witness ==
    \E id \in SeIds :
        /\ units[id].how = "undo" /\ ~units[id].inact
        /\ units[id].f0 = "push_back"
        /\ units[id].pre = Some(<<1, 2, 3>>) /\ units[id].v0 = Some(3)
        /\ CallsOf(id) = <<Call(id, "push_back", Some(7))>>
        /\ units[id].upre = Some(<<1, 2>>)
        /\ units[id].upost = Some(<<1, 2, 7>>)

====
